---- MODULE Spec2Model ----
(***************************************************************************)
(* Model of chatbot_loom: the ChatBot entity, the JSON-backed ChatBotLoom   *)
(* registry (bots.py) and the CLI startup block (__main__.py).              *)
(*                                                                          *)
(* Python values are records tagged by a field t (their type).  A str is    *)
(* [t |-> "str", v |-> <<tokens>>]; iterating it yields one-token strs.     *)
(* A ChatBot is a record whose remaining fields are its attributes, so      *)
(* attribute lookup is membership in the record's DOMAIN.  A JSON document  *)
(* is modelled by its parse tree; text that does not parse is "raw".        *)
(***************************************************************************)
EXTENDS Integers, Sequences, FiniteSets, TLC

VARIABLES
    file,       \* content of the file at chatbots_file_path
    nextUuid,   \* number of uuid4() draws made so far, plus one
    objs,       \* ChatBot objects the caller has constructed
    loaded,     \* the caller's most recent load_bots() result
    loadedFrom, \* the file content that result was read from
    op,         \* the most recent call: name, argument, file before, outcome
    lastAdded,  \* the bot of the most recent add_bot_to_file that returned
    outbox,     \* requests ChatCompletion.create received during the last chat()
    history,    \* the turns the chat session has accumulated, oldest first
    pc,         \* position of each process (startup block / racing callers)
    local,      \* each racing caller's in-memory list between load and save
    order,      \* file accesses of the racing callers, in the order they happened
    file0       \* the file as it was when the run started

vars == <<file, nextUuid, objs, loaded, loadedFrom, op, lastAdded, outbox, history, pc, local, order, file0>>

\* ---------------------------------------------------------------- bounds
MaxUuid == 3
MaxObjs == 2
MaxHistory == 2
MaxChoices == 2
MaxFileLen == 3

\* ---------------------------------------------------------- Python values
PyStr(s) == [t |-> "str", v |-> s]
PyList(xs) == [t |-> "list", items |-> xs]
None == [t |-> "NoneType"]
PyBool(b) == [t |-> "bool", b |-> b]

\* iteration order of `for x in obj`
Iter(obj) ==
    IF obj.t = "list" THEN obj.items
    ELSE [i \in 1..Len(obj.v) |-> PyStr(<<obj.v[i]>>)]

HasAttr(obj, a) == a /= "t" /\ a \in DOMAIN obj

Ok(ret) == [status |-> "ok", ret |-> ret]
Raise(e) == [status |-> e, ret |-> None]

\* ------------------------------------------------------------ JSON values
JString(s) == [t |-> "string", v |-> s]
JNumber(s) == [t |-> "number", v |-> s]
JArray(xs) == [t |-> "array", items |-> xs]
JObject(f) == [t |-> "object", f |-> f]
Raw(s) == [t |-> "raw", v |-> s]

Absent == [st |-> "absent"]
Exists(data) == [st |-> "exists", data |-> data]

\* json.load / json.dump on scalars
FromJson(j) == IF j.t = "string" THEN PyStr(j.v) ELSE [t |-> "int", v |-> j.v]
ToJson(p) == IF p.t = "str" THEN JString(p.v) ELSE JNumber(p.v)

Fields == {"id", "name", "description", "entrypoint"}

BOTS_SCHEMA ==
    [type |-> "array",
     items |-> [type |-> "object",
                properties |-> [k \in Fields |-> "string"],
                required |-> Fields]]

SchemaText == <<"{'type': 'array', 'items': {...}, 'required': ['id', 'name', 'description', 'entrypoint']}">>

validate_item_required_only(item, schema) ==
    /\ item.t = schema.type
    /\ schema.required \subseteq DOMAIN item.f

validate_item(item, schema) ==
    /\ item.t = schema.type
    /\ schema.required \subseteq DOMAIN item.f
    /\ \A k \in DOMAIN item.f \cap DOMAIN schema.properties :
           item.f[k].t = schema.properties[k]

validate(instance, schema) ==
    /\ instance.t = schema.type
    /\ \A i \in 1..Len(instance.items) : validate_item(instance.items[i], schema.items)

\* ---------------------------------------------------------------- ChatBot
uuid4hex(n) == PyStr(<<"uuid", ToString(n)>>)

ChatBot(name, description, entrypoint, n) ==
    [t |-> "ChatBot", identifier |-> uuid4hex(n), name |-> name,
     description |-> description, entrypoint |-> entrypoint]

\* ChatBot.__eq__(self, other)
ChatBot_eq(self, other) ==
    IF other.t /= "ChatBot" THEN Ok(FALSE)
    ELSE IF HasAttr(other, "id") THEN Ok(self.identifier = other.id)
    ELSE Raise("AttributeError")

\* Every ChatBot() call draws a fresh uuid and nothing reassigns identifier,
\* so two references denote the same object iff the identifiers agree.
Is(a, b) == a.t = "ChatBot" /\ b.t = "ChatBot" /\ a.identifier = b.identifier

RECURSIVE list_remove(_, _)
\* list.remove(x): identity first, then item == x; an exception in == propagates
list_remove(xs, x) ==
    IF xs = <<>> THEN Raise("ValueError")
    ELSE IF Is(xs[1], x) THEN Ok(Tail(xs))
    ELSE LET e == ChatBot_eq(xs[1], x) IN
         IF e.status /= "ok" THEN e
         ELSE IF e.ret THEN Ok(Tail(xs))
         ELSE LET r == list_remove(Tail(xs), x) IN
              IF r.status /= "ok" THEN r ELSE Ok(<<xs[1]>> \o r.ret)

CHAT_GPT_MODEL_ID == "gpt-4"

_initialize_chat(self) == <<[role |-> "system", content |-> self.entrypoint]>>

RECURSIVE append_turns_bot_first(_, _)
append_turns_bot_first(message_history, plain_history) ==
    IF plain_history = <<>> THEN message_history
    ELSE append_turns_bot_first(
             message_history
                 \o <<[role |-> "system", content |-> plain_history[1][2]],
                      [role |-> "user", content |-> plain_history[1][1]]>>,
             Tail(plain_history))

RECURSIVE append_turns(_, _)
\* the loop of chat(): message_tuple[0] is the user text, message_tuple[1] the reply
append_turns(message_history, plain_history) ==
    IF plain_history = <<>> THEN message_history
    ELSE append_turns(
             message_history
                 \o <<[role |-> "user", content |-> plain_history[1][1]],
                      [role |-> "system", content |-> plain_history[1][2]]>>,
             Tail(plain_history))

\* the messages chat() passes to ChatCompletion.create
chat_messages(self, message, plain_history) ==
    Append(append_turns(_initialize_chat(self), plain_history),
           [role |-> "user", content |-> message])

\* response["choices"][0]["message"]["content"]
chat_result(response) ==
    IF response.t = "error" THEN Raise("APIError")
    ELSE IF response.choices = <<>> THEN Raise("IndexError")
    ELSE Ok(response.choices[1])

\* ------------------------------------------------------------ ChatBotLoom
chat_bots_file_exists(f) == f.st = "exists"

\* returns status, the list of bots, and the uuid counter after the call
load_bots(f, n) ==
    IF f.st = "absent" THEN [status |-> "FileNotFoundError", ret |-> <<>>, n |-> n]
    ELSE IF f.data.t = "raw" THEN [status |-> "JSONDecodeError", ret |-> <<>>, n |-> n]
    ELSE IF ~validate(f.data, BOTS_SCHEMA)
         THEN [status |-> "ValidationError", ret |-> <<>>, n |-> n]
    ELSE LET bots == f.data.items IN
         [status |-> "ok",
          ret |-> [i \in 1..Len(bots) |->
                      ChatBot(FromJson(bots[i].f["name"]),
                              FromJson(bots[i].f["description"]),
                              FromJson(bots[i].f["entrypoint"]), n + i - 1)],
          n |-> n + Len(bots)]

bot_record(bot) ==
    JObject([k \in Fields |->
                CASE k = "id" -> ToJson(bot.identifier)
                  [] k = "name" -> ToJson(bot.name)
                  [] k = "description" -> ToJson(bot.description)
                  [] k = "entrypoint" -> ToJson(bot.entrypoint)])

\* open(path, "w") truncates before the comprehension over bots is evaluated
save_bots_to_file(f, bots) ==
    LET xs == Iter(bots) IN
    IF \E i \in 1..Len(xs) : ~HasAttr(xs[i], "identifier")
    THEN [status |-> "AttributeError", file |-> Exists(Raw(<<>>))]
    ELSE [status |-> "ok",
          file |-> Exists(JArray([i \in 1..Len(xs) |-> bot_record(xs[i])]))]

\* lines 134-135 / 140-141: the in-memory list a call holds before it saves
add_bot_read_forgets_loaded(f, bot, n) == [status |-> "ok", bots |-> <<bot>>, n |-> n]

add_bot_read(f, bot, n) ==
    LET l == IF chat_bots_file_exists(f) THEN load_bots(f, n)
             ELSE [status |-> "ok", ret |-> <<>>, n |-> n] IN
    IF l.status /= "ok" THEN [status |-> l.status, bots |-> <<>>, n |-> l.n]
    ELSE [status |-> "ok", bots |-> Append(l.ret, bot), n |-> l.n]

remove_bot_read(f, bot, n) ==
    LET l == load_bots(f, n) IN
    IF l.status /= "ok" THEN [status |-> l.status, bots |-> <<>>, n |-> l.n]
    ELSE LET r == list_remove(l.ret, bot) IN
         IF r.status /= "ok" THEN [status |-> r.status, bots |-> <<>>, n |-> l.n]
         ELSE [status |-> "ok", bots |-> r.ret, n |-> l.n]

add_bot_to_file(f, bot, n) ==
    LET r == add_bot_read(f, bot, n) IN
    IF r.status /= "ok" THEN [status |-> r.status, file |-> f, n |-> r.n]
    ELSE LET s == save_bots_to_file(f, PyList(r.bots)) IN
         [status |-> s.status, file |-> s.file, n |-> r.n]

remove_bot(f, bot, n) ==
    LET r == remove_bot_read(f, bot, n) IN
    IF r.status /= "ok" THEN [status |-> r.status, file |-> f, n |-> r.n]
    ELSE LET s == save_bots_to_file(f, PyList(r.bots)) IN
         [status |-> s.status, file |-> s.file, n |-> r.n]

RECURSIVE first_match(_, _, _)
first_match(bots, criteria, value) ==
    IF bots = <<>> THEN None
    ELSE IF bots[1][criteria] = value THEN bots[1]
    ELSE first_match(Tail(bots), criteria, value)

_find_bot(f, criteria, value, n) ==
    LET l == load_bots(f, n) IN
    IF l.status /= "ok" THEN [status |-> l.status, ret |-> None, n |-> l.n]
    ELSE [status |-> "ok", ret |-> first_match(l.ret, criteria, value), n |-> l.n]

get_bot(f, bot_id, n) == _find_bot(f, "identifier", bot_id, n)

get_bot_by_name(f, name, n) == _find_bot(f, "name", name, n)

sample_bot_description == PyStr(<<"A sample bot for creating new bots">>)

example_bot_json_structure == <<"{'name': 'MindGuru', ...}">>

sample_bot_entrypoint_without_schema ==
    PyStr(<<"You are a chatbot for creating other chatbots.">>
          \o <<"A bot could look like this: ">> \o example_bot_json_structure
          \o <<"Note that 'entrypoint' is a prompt for ChatGPT.">>)

sample_bot_entrypoint ==
    PyStr(<<"You are a chatbot for creating other chatbots.">>
          \o <<"validates them using the following JSON schema: ">> \o SchemaText
          \o <<"A bot could look like this: ">> \o example_bot_json_structure
          \o <<"Note that 'entrypoint' is a prompt for ChatGPT.">>)

create_sample_bot_file(f, n) ==
    LET sample_bot == ChatBot(PyStr(<<"Chatbot Loom">>), sample_bot_description,
                              sample_bot_entrypoint, n)
        a == add_bot_to_file(f, sample_bot, n + 1) IN
    [status |-> a.status, file |-> a.file, n |-> a.n,
     ret |-> IF a.status = "ok" THEN sample_bot ELSE None]

\* ------------------------------------------------- inputs of the registry
Helper(id) ==
    JObject([k \in Fields |->
                CASE k = "id" -> JString(<<id>>)
                  [] k = "name" -> JString(<<"Helper">>)
                  [] k = "description" -> JString(<<"d">>)
                  [] k = "entrypoint" -> JString(<<"You are Helper.">>)])

ItemA == Helper("a1")
ItemB == Helper("b2")
ItemNoEntrypoint == JObject([k \in Fields \ {"entrypoint"} |-> JString(<<k>>)])
ItemNumberName ==
    JObject([k \in Fields |-> IF k = "name" THEN JNumber(<<"7">>) ELSE JString(<<k>>)])
ItemNotObject == JNumber(<<"7">>)

ZeroBytes == Exists(Raw(<<>>))
Garbage == Exists(Raw(<<"not json">>))
NotArray == Exists(ItemA)

RegistryFiles ==
    {Absent, ZeroBytes, Garbage, NotArray,
     Exists(JArray(<<>>)), Exists(JArray(<<ItemA>>)), Exists(JArray(<<ItemA, ItemB>>)),
     Exists(JArray(<<ItemNoEntrypoint>>)), Exists(JArray(<<ItemA, ItemNumberName>>)),
     Exists(JArray(<<ItemNotObject>>))}

bots_file_path == PyStr(<<"bots", ".json">>)

Names == {PyStr(<<"Helper">>)}
Prompts == {PyStr(<<"You are Helper.">>)}

NoOp == [name |-> "none", arg |-> None, pre |-> Absent, status |-> "ok", ret |-> None]
Call(name, arg, status, ret) ==
    [name |-> name, arg |-> arg, pre |-> file, status |-> status, ret |-> ret]

\* the bots a caller can hand to the registry: constructed or loaded ones
Held == {objs[i] : i \in 1..Len(objs)} \cup {loaded[i] : i \in 1..Len(loaded)}

Idle == <<outbox, history, pc, local, order, file0>>

\* ------------------------------------------------ registry, one caller
InitRegistry ==
    /\ file \in RegistryFiles
    /\ nextUuid = 1
    /\ objs = <<>>
    /\ loaded = <<>>
    /\ loadedFrom = Absent
    /\ op = NoOp
    /\ lastAdded = None
    /\ outbox = <<>>
    /\ history = <<>>
    /\ pc = <<>>
    /\ local = <<>>
    /\ order = <<>>
    /\ file0 = file

\* ChatBot(name, description, entrypoint)
Construct(names, prompts) ==
    \E name \in names, entrypoint \in prompts :
        /\ Len(objs) < MaxObjs
        /\ nextUuid <= MaxUuid
        /\ objs' = Append(objs, ChatBot(name, PyStr(<<"d">>), entrypoint, nextUuid))
        /\ nextUuid' = nextUuid + 1
        /\ UNCHANGED <<file, loaded, loadedFrom, op, lastAdded>>
        /\ UNCHANGED Idle

NewBot == Construct(Names, Prompts)

FileExists ==
    /\ op' = Call("chat_bots_file_exists", None, "ok",
                  PyBool(chat_bots_file_exists(file)))
    /\ UNCHANGED <<file, nextUuid, objs, loaded, loadedFrom, lastAdded>>
    /\ UNCHANGED Idle

LoadBots ==
    LET l == load_bots(file, nextUuid) IN
    /\ l.n <= MaxUuid + 1
    /\ op' = Call("load_bots", None, l.status, PyList(l.ret))
    /\ loaded' = IF l.status = "ok" THEN l.ret ELSE loaded
    /\ loadedFrom' = IF l.status = "ok" THEN file ELSE loadedFrom
    /\ nextUuid' = l.n
    /\ UNCHANGED <<file, objs, lastAdded>>
    /\ UNCHANGED Idle

SaveBots ==
    \E bots \in {PyList(loaded), PyList(objs), bots_file_path} :
        LET s == save_bots_to_file(file, bots) IN
        /\ op' = Call("save_bots_to_file", bots, s.status, None)
        /\ file' = s.file
        /\ UNCHANGED <<nextUuid, objs, loaded, loadedFrom, lastAdded>>
        /\ UNCHANGED Idle

AddBot ==
    \E bot \in Held :
        LET a == add_bot_to_file(file, bot, nextUuid) IN
        /\ a.n <= MaxUuid + 1
        /\ op' = Call("add_bot_to_file", bot, a.status, None)
        /\ lastAdded' = IF a.status = "ok" THEN bot ELSE lastAdded
        /\ file' = a.file
        /\ nextUuid' = a.n
        /\ UNCHANGED <<objs, loaded, loadedFrom>>
        /\ UNCHANGED Idle

RemoveBot ==
    \E bot \in Held :
        LET r == remove_bot(file, bot, nextUuid) IN
        /\ r.n <= MaxUuid + 1
        /\ op' = Call("remove_bot", bot, r.status, None)
        /\ file' = r.file
        /\ nextUuid' = r.n
        /\ UNCHANGED <<objs, loaded, loadedFrom, lastAdded>>
        /\ UNCHANGED Idle

GetBot ==
    \E bot_id \in {b.identifier : b \in Held} \cup {PyStr(<<"a1">>)} :
        LET g == get_bot(file, bot_id, nextUuid) IN
        /\ g.n <= MaxUuid + 1
        /\ op' = Call("get_bot", bot_id, g.status, g.ret)
        /\ nextUuid' = g.n
        /\ UNCHANGED <<file, objs, loaded, loadedFrom, lastAdded>>
        /\ UNCHANGED Idle

GetBotByName ==
    \E name \in Names :
        LET g == get_bot_by_name(file, name, nextUuid) IN
        /\ g.n <= MaxUuid + 1
        /\ op' = Call("get_bot_by_name", name, g.status, g.ret)
        /\ nextUuid' = g.n
        /\ UNCHANGED <<file, objs, loaded, loadedFrom, lastAdded>>
        /\ UNCHANGED Idle

CreateSampleBotFile ==
    LET c == create_sample_bot_file(file, nextUuid) IN
    /\ c.n <= MaxUuid + 1
    /\ op' = Call("create_sample_bot_file", None, c.status, c.ret)
    /\ file' = c.file
    /\ nextUuid' = c.n
    /\ UNCHANGED <<objs, loaded, loadedFrom, lastAdded>>
    /\ UNCHANGED Idle

NextRegistry ==
    \/ NewBot
    \/ FileExists
    \/ LoadBots
    \/ SaveBots
    \/ AddBot
    \/ RemoveBot
    \/ GetBot
    \/ GetBotByName
    \/ CreateSampleBotFile

SpecRegistry == InitRegistry /\ [][NextRegistry]_vars

\* ------------------------------------------------- the ChatBot entity
EntityNames == {PyStr(<<"Helper">>), PyStr(<<"Guru">>)}
EntityPrompts == {PyStr(<<"You are Helper.">>), PyStr(<<"You are Guru.">>)}

InitEntity == InitRegistry /\ file = Absent

NewChatBot == Construct(EntityNames, EntityPrompts)

\* x == y
Compare ==
    \E x \in {objs[i] : i \in 1..Len(objs)},
       y \in {objs[i] : i \in 1..Len(objs)} \cup {bots_file_path} :
        LET e == ChatBot_eq(x, y) IN
        /\ op' = Call("__eq__", [self |-> x, other |-> y], e.status,
                      IF e.status = "ok" THEN PyBool(e.ret) ELSE None)
        /\ UNCHANGED <<file, nextUuid, objs, loaded, loadedFrom, lastAdded>>
        /\ UNCHANGED Idle

NextEntity ==
    \/ NewChatBot
    \/ Compare

SpecEntity == InitEntity /\ [][NextEntity]_vars

\* ------------------------------------------------- chat(), one session
SeqsUpTo(S, n) == UNION {[1..k -> S] : k \in 0..n}

Texts == {PyStr(<<"Hi">>), PyStr(<<"Next question">>)}
Replies == {PyStr(<<"Hello!">>), PyStr(<<"Bye">>)}
Responses ==
    {[t |-> "error", choices |-> <<>>]}
        \cup {[t |-> "response", choices |-> c] : c \in SeqsUpTo(Replies, MaxChoices)}

InitChat ==
    /\ file = Absent
    /\ nextUuid = 2
    /\ objs \in {<<ChatBot(PyStr(<<"Helper">>), PyStr(<<"d">>), e, 1)>> :
                    e \in {PyStr(<<"You are Helper.">>), PyStr(<<"You are Guru.">>)}}
    /\ loaded = <<>>
    /\ loadedFrom = Absent
    /\ op = NoOp
    /\ lastAdded = None
    /\ outbox = <<>>
    /\ history = <<>>
    /\ pc = <<>>
    /\ local = <<>>
    /\ order = <<>>
    /\ file0 = file

\* bot.chat(message, history), the collaborator answering `response`; the
\* session appends the turn to its history when a reply came back
Chat ==
    \E message \in Texts, response \in Responses :
        LET self == objs[1]
            r == chat_result(response) IN
        /\ Len(history) <= MaxHistory
        /\ outbox' = <<[model |-> CHAT_GPT_MODEL_ID,
                        messages |-> chat_messages(self, message, history),
                        response |-> response]>>
        /\ op' = Call("chat",
                      [self |-> self, message |-> message,
                       plain_history |-> PyList(history)],
                      r.status, r.ret)
        /\ history' = IF r.status = "ok" THEN Append(history, <<message, r.ret>>)
                      ELSE history
        /\ UNCHANGED <<file, nextUuid, objs, loaded, loadedFrom, lastAdded,
                       pc, local, order, file0>>

NextChat == Chat

SpecChat == InitChat /\ [][NextChat]_vars

\* ----------------------------------- two callers racing on the same file
Procs == {1, 2}

RaceFiles == {Absent, Exists(JArray(<<>>)), Exists(JArray(<<ItemA>>))}

RaceBot(p) ==
    ChatBot(PyStr(<<"Bot", ToString(p)>>), PyStr(<<"d">>), PyStr(<<"You are Helper.">>), p)

InitRace ==
    /\ file \in RaceFiles
    /\ nextUuid = 3
    /\ objs = <<RaceBot(1), RaceBot(2)>>
    /\ loaded = <<>>
    /\ loadedFrom = Absent
    /\ op = NoOp
    /\ lastAdded = None
    /\ outbox = <<>>
    /\ history = <<>>
    /\ pc = [p \in Procs |-> "start"]
    /\ local \in [Procs -> [task : {"add_bot_to_file", "remove_bot"},
                            bots : {<<>>}, status : {"ok"}]]
    /\ order = <<>>
    /\ file0 = file

\* the first half of add_bot_to_file / remove_bot: read the file, change the list
RaceLoad(p) ==
    LET r == IF local[p].task = "add_bot_to_file"
             THEN add_bot_read(file, objs[p], nextUuid)
             ELSE remove_bot_read(file, objs[p], nextUuid) IN
    /\ pc[p] = "start"
    /\ pc' = [pc EXCEPT ![p] = IF r.status = "ok" THEN "loaded" ELSE "failed"]
    /\ local' = [local EXCEPT ![p].bots = r.bots, ![p].status = r.status]
    /\ nextUuid' = r.n
    /\ order' = Append(order, [p |-> p, a |-> "load"])
    /\ UNCHANGED <<file, objs, loaded, loadedFrom, op, lastAdded, outbox, history, file0>>

\* the second half: save_bots_to_file(bots)
RaceSave(p) ==
    LET s == save_bots_to_file(file, PyList(local[p].bots)) IN
    /\ pc[p] = "loaded"
    /\ pc' = [pc EXCEPT ![p] = IF s.status = "ok" THEN "done" ELSE "failed"]
    /\ local' = [local EXCEPT ![p].status = s.status]
    /\ file' = s.file
    /\ order' = Append(order, [p |-> p, a |-> "save"])
    /\ UNCHANGED <<nextUuid, objs, loaded, loadedFrom, op, lastAdded, outbox, history, file0>>

NextRace == \E p \in Procs : RaceLoad(p) \/ RaceSave(p)

SpecRace == InitRace /\ [][NextRace]_vars

\* -------------------------------------------- __main__.py, lines 25 to 37
Items == {ItemA, ItemB, ItemNoEntrypoint, ItemNumberName, ItemNotObject}

StartupFiles ==
    {Absent, ZeroBytes, Garbage, NotArray}
        \cup {Exists(JArray(xs)) : xs \in SeqsUpTo(Items, MaxFileLen)}

InitStartup ==
    /\ file \in StartupFiles
    /\ nextUuid = 1
    /\ objs = <<>>
    /\ loaded = <<>>
    /\ loadedFrom = Absent
    /\ op = NoOp
    /\ lastAdded = None
    /\ outbox = <<>>
    /\ history = <<>>
    /\ pc = "line26"
    /\ local = <<>>
    /\ order = <<>>
    /\ file0 = file

StartupRest == <<objs, loaded, loadedFrom, lastAdded, outbox, history, local, order, file0>>

\* if loom.chat_bots_file_exists() and len(loom.load_bots()) > 0
CheckBots ==
    LET l == IF chat_bots_file_exists(file) THEN load_bots(file, nextUuid)
             ELSE [status |-> "ok", ret |-> <<>>, n |-> nextUuid] IN
    /\ pc = "line26"
    /\ op' = IF chat_bots_file_exists(file)
             THEN Call("load_bots", None, l.status, PyList(l.ret))
             ELSE Call("chat_bots_file_exists", None, "ok", PyBool(FALSE))
    /\ nextUuid' = l.n
    /\ pc' = IF l.status /= "ok" THEN "exit1"
             ELSE IF Len(l.ret) > 0 THEN "line35" ELSE "line32"
    /\ UNCHANGED file
    /\ UNCHANGED StartupRest

\* loom.create_sample_bot_file()
CreateSample ==
    LET c == create_sample_bot_file(file, nextUuid) IN
    /\ pc = "line32"
    /\ op' = Call("create_sample_bot_file", None, c.status, c.ret)
    /\ file' = c.file
    /\ nextUuid' = c.n
    /\ pc' = IF c.status = "ok" THEN "line33" ELSE "exit1"
    /\ UNCHANGED StartupRest

\* loom.save_bots_to_file(bots_file_path)
SavePath ==
    LET s == save_bots_to_file(file, bots_file_path) IN
    /\ pc = "line33"
    /\ op' = Call("save_bots_to_file", bots_file_path, s.status, None)
    /\ file' = s.file
    /\ pc' = IF s.status = "ok" THEN "line35" ELSE "exit1"
    /\ UNCHANGED nextUuid
    /\ UNCHANGED StartupRest

\* openai.api_key = ...; run_tabbed_chat_ui(loom)
RunUi ==
    /\ pc = "line35"
    /\ pc' = "ui"
    /\ UNCHANGED <<file, nextUuid, op>>
    /\ UNCHANGED StartupRest

NextStartup ==
    \/ CheckBots
    \/ CreateSample
    \/ SavePath
    \/ RunUi

SpecStartup == InitStartup /\ [][NextStartup]_vars

\* ------------------------------------------------- properties, registry
\* The Bot Collection format, stated independently of the loader: an array of
\* objects with the four string fields.
Conforms(f) ==
    /\ f.st = "exists"
    /\ f.data.t = "array"
    /\ \A i \in 1..Len(f.data.items) :
           /\ f.data.items[i].t = "object"
           /\ Fields \subseteq DOMAIN f.data.items[i].f
           /\ \A k \in Fields : f.data.items[i].f[k].t = "string"

Count(f) == IF f.st = "exists" /\ f.data.t = "array" THEN Len(f.data.items) ELSE 0

HoldsId(f, id) ==
    /\ Conforms(f)
    /\ \E i \in 1..Len(f.data.items) : f.data.items[i].f["id"] = ToJson(id)

Contains(s, sub) ==
    \E i \in 1..(Len(s) - Len(sub) + 1) : SubSeq(s, i, i + Len(sub) - 1) = sub

\* C1: for a schema-valid file, load_bots, save_bots_to_file of the loaded
\* bots, then load_bots yields the same records in the same order, each with
\* the id, name, description and entrypoint it had in the original file.
RoundTripKeepsRecords ==
    ( /\ op.name = "save_bots_to_file"
      /\ Conforms(op.pre)
      /\ loadedFrom = op.pre
      /\ op.arg = PyList(loaded) )
    => /\ op.status = "ok"
       /\ LET l == load_bots(file, nextUuid)
              orig == op.pre.data.items IN
          /\ l.status = "ok"
          /\ Len(l.ret) = Len(orig)
          /\ \A i \in 1..Len(orig) :
                 /\ l.ret[i].identifier = FromJson(orig[i].f["id"])
                 /\ l.ret[i].name = FromJson(orig[i].f["name"])
                 /\ l.ret[i].description = FromJson(orig[i].f["description"])
                 /\ l.ret[i].entrypoint = FromJson(orig[i].f["entrypoint"])

\* C2: add_bot_to_file(b) on an absent or schema-valid file of n bots leaves
\* n+1 records (1 if absent), and get_bot(b.identifier) afterwards returns a
\* bot equal to b.
AddThenFindReturnsBot ==
    /\ ( op.name = "add_bot_to_file" /\ (op.pre = Absent \/ Conforms(op.pre)) )
       => op.status = "ok" /\ Conforms(file) /\ Count(file) = Count(op.pre) + 1
    /\ ( /\ op.name = "get_bot"
         /\ lastAdded /= None
         /\ op.arg = lastAdded.identifier
         /\ HoldsId(op.pre, op.arg) )
       => /\ op.status = "ok"
          /\ op.ret.t = "ChatBot"
          /\ op.ret.identifier = op.arg

\* C3: remove_bot(b) after add_bot_to_file(b) completes without error,
\* restores the length the collection had before the add, and a subsequent
\* get_bot(b.identifier) returns None.
RemoveAfterAddRestores ==
    ( /\ op.name = "remove_bot"
      /\ op.arg = lastAdded
      /\ HoldsId(op.pre, op.arg.identifier) )
    => /\ op.status = "ok"
       /\ Count(file) = Count(op.pre) - 1
       /\ get_bot(file, op.arg.identifier, nextUuid).ret = None

\* C4: x == y on two bots evaluates without raising, and is true iff the
\* identifiers are equal, whatever the other fields are; two bots constructed
\* independently have different identifiers and compare not equal.
EqualityByIdentifier ==
    ( op.name = "__eq__" /\ op.arg.other.t = "ChatBot" )
    => /\ op.status = "ok"
       /\ op.ret = PyBool(op.arg.self.identifier = op.arg.other.identifier)

ReadModifyWrite == {"add_bot_to_file", "remove_bot", "create_sample_bot_file"}

\* C6: a read-modify-write operation on an existing file that does not parse
\* or does not satisfy the schema ends in an error and writes nothing.
InvalidFileNeverWritten ==
    ( op.name \in ReadModifyWrite /\ op.pre.st = "exists" /\ ~Conforms(op.pre) )
    => op.status /= "ok" /\ file = op.pre

InvalidFileNeverWritten_Witness ==
    /\ op.name = "add_bot_to_file"
    /\ op.pre = Exists(JArray(<<ItemA, ItemNumberName>>))
    /\ op.status = "ValidationError"

BootstrapResult ==
    /\ op.status = "ok"
    /\ chat_bots_file_exists(file)
    /\ LET l == load_bots(file, nextUuid) IN
       /\ l.status = "ok"
       /\ Len(l.ret) = 1
       /\ Contains(l.ret[1].entrypoint.v, SchemaText)

\* C7 (as stated): create_sample_bot_file on an absent or empty file completes
\* without error; afterwards the file exists and load_bots returns exactly one
\* record whose entrypoint contains the schema description.
BootstrapOnAbsentOrEmptyFile ==
    ( /\ op.name = "create_sample_bot_file"
      /\ op.pre \in {Absent, ZeroBytes, Exists(JArray(<<>>))} )
    => BootstrapResult

\* C7 (amended): the same, for a file that is absent or holds the empty
\* collection []; a zero-byte file is not valid JSON and the call fails.
BootstrapOnAbsentOrEmptyCollection ==
    /\ ( /\ op.name = "create_sample_bot_file"
         /\ op.pre \in {Absent, Exists(JArray(<<>>))} )
       => BootstrapResult
    /\ ( op.name = "create_sample_bot_file" /\ op.pre = ZeroBytes )
       => op.status = "JSONDecodeError" /\ file = op.pre

BootstrapOnAbsentOrEmptyCollection_Witness ==
    /\ op.name = "create_sample_bot_file"
    /\ op.pre = Exists(JArray(<<>>))
    /\ op.status = "ok"
    /\ Count(file) = 1

\* C8: a failing save_bots_to_file, add_bot_to_file or remove_bot leaves the
\* file content as it was before the call.
FailedOperationLeavesFileUnchanged ==
    ( op.name \in {"save_bots_to_file", "add_bot_to_file", "remove_bot"}
      /\ op.status /= "ok" )
    => file = op.pre

\* ------------------------------------------------------ properties, chat
\* C5: chat() sends exactly one request, whose messages are: system with the
\* entrypoint; per turn, in history order, user with the user text then
\* system with the bot text; last, user with the new message (2n+2 entries);
\* what it returns is the content of the response's first choice.
ChatSendsHistoryInOrder ==
    op.name = "chat"
    => /\ Len(outbox) = 1
       /\ LET m == outbox[1].messages
              h == op.arg.plain_history.items
              n == Len(h) IN
          /\ Len(m) = 2 * n + 2
          /\ m[1] = [role |-> "system", content |-> op.arg.self.entrypoint]
          /\ \A i \in 1..n :
                 /\ m[2 * i] = [role |-> "user", content |-> h[i][1]]
                 /\ m[2 * i + 1] = [role |-> "system", content |-> h[i][2]]
          /\ m[2 * n + 2] = [role |-> "user", content |-> op.arg.message]
       /\ op.status = "ok" => op.ret = outbox[1].response.choices[1]

ChatSendsHistoryInOrder_Witness ==
    /\ op.name = "chat"
    /\ op.status = "ok"
    /\ Len(op.arg.plain_history.items) = 2
    /\ op.arg.plain_history.items[1] /= op.arg.plain_history.items[2]

\* ------------------------------------------------------ properties, race
Returned == \A p \in Procs : pc[p] = "done"

Present(p) ==
    /\ Conforms(file)
    /\ \E i \in 1..Len(file.data.items) :
           file.data.items[i].f["name"] = ToJson(objs[p].name)

Sequential ==
    \E p, q \in Procs :
        /\ p /= q
        /\ order = <<[p |-> p, a |-> "load"], [p |-> p, a |-> "save"],
                     [p |-> q, a |-> "load"], [p |-> q, a |-> "save"]>>

\* C9: when both calls returned without error and ran one after the other,
\* both changes are in the file; when they interleaved, the last writer's
\* change is there (and the other's may be lost, see the witness).
SequentialCallsKeepBoth ==
    Returned
    => /\ Present(order[Len(order)].p)
       /\ Sequential => /\ \A p \in Procs : Present(p)
                        /\ Count(file) = Count(file0) + 2

\* both calls returned without error and the file lacks one caller's bot
LostUpdate ==
    /\ Returned
    /\ \E p \in Procs : ~Present(p)
    /\ Count(file) = Count(file0) + 1

\* ---------------------------------------------------- properties, startup
FirstRun == file0 = Absent \/ (Conforms(file0) /\ Count(file0) = 0)

\* C10: on a first run (file absent or holding zero bots) the startup block
\* neither starts the chat UI nor exits with the file other than a
\* schema-valid collection holding at least one bot.
FirstRunLeavesSampleBot ==
    ( FirstRun /\ pc \in {"ui", "exit1"} )
    => Conforms(file) /\ Count(file) >= 1

====
